---- MODULE Spec2Model ----
(***************************************************************************)
(* Golomb codes of dsi-bitstream (src/codes/golomb.rs).                    *)
(*                                                                         *)
(* The module models len_golomb, b, p, GolombRead::read_golomb and         *)
(* GolombWrite::write_golomb from the source.  The bit stream, the unary   *)
(* code and the minimal binary code live in other files of the crate       *)
(* (crate::traits, super::minimal_binary); they are modelled from their    *)
(* documented contracts.                                                   *)
(*                                                                         *)
(* Integer widths are scaled: u64 and usize (64-bit target) are both       *)
(* U64Bits wide, so that the values next to the top of the range, where    *)
(* the arithmetic of golomb.rs can overflow, are reachable.  Rust's        *)
(* integer overflow depends on the build: with overflow checks (debug      *)
(* profile) it panics, without them (release profile) it wraps.  Both      *)
(* builds are modelled; overflow_checks is chosen in Init.                 *)
(***************************************************************************)
EXTENDS Integers, Sequences, FiniteSets

(* ------------------------------ bounds -------------------------------- *)

\* Width of u64 and of usize in the model (64 in the source).
U64Bits == 3

\* Values written are 0..MaxVal and the largest u64.
MaxVal == 1

\* Moduli passed to write_golomb and read_golomb are 1..MaxMod.
MaxMod == 3

\* Number of write_golomb calls on one sink.
MaxWrites == 2

\* p is a fixed-point number with denominator PScale.
PScale == 10

\* Moduli passed to p are 1..MaxB0.
MaxB0 == 6

(* ----------------------------- arithmetic ------------------------------ *)

RECURSIVE Pow(_, _)
Pow(x, k) == IF k = 0 THEN 1 ELSE x * Pow(x, k - 1)

U64Max == Pow(2, U64Bits) - 1

UsizeMax == U64Max

\* The outcome of an arithmetic operation that panicked.
Panic == -1

Min(S) == CHOOSE x \in S : \A y \in S : x <= y

\* x + y on u64: a panic with overflow checks, wrapping without.
u64_add(x, y, oc) ==
    IF x + y > U64Max
    THEN (IF oc THEN Panic ELSE (x + y) % (U64Max + 1))
    ELSE x + y

\* x * y on u64.
u64_mul(x, y, oc) ==
    IF x * y > U64Max
    THEN (IF oc THEN Panic ELSE (x * y) % (U64Max + 1))
    ELSE x * y

\* x + y on usize.
usize_add(x, y, oc) ==
    IF x + y > UsizeMax
    THEN (IF oc THEN Panic ELSE (x + y) % (UsizeMax + 1))
    ELSE x + y

\* `x as usize` for a u64 x: the low bits (all of them on a 64-bit target).
as_usize(x) == x % (UsizeMax + 1)

\* u64::ilog2 for m >= 1.
RECURSIVE ilog2(_)
ilog2(m) == IF m <= 1 THEN 0 ELSE 1 + ilog2(m \div 2)

(* ------------------------------ results -------------------------------- *)

NoErr == "none"

OkRes(v) == [status |-> "ok", value |-> v, err |-> NoErr]

ErrRes(e) == [status |-> "err", value |-> 0, err |-> e]

PanicRes == [status |-> "panic", value |-> 0, err |-> NoErr]

\* The error of a sink with no room left, and of a source with no bit left.
SinkFull == "WriteZero"

Eof == "UnexpectedEof"

\* Capacity of the sink in bits: room for the longest code of a u64.
SinkCap == Pow(2, U64Bits)

(* --------------------- bit stream, unary, minimal binary --------------- *)

\* A stream is [bits, pos, trace]: the bits written, the read position
\* (bits consumed), and the sub-code calls made on it during one call of
\* write_golomb or read_golomb, each with its result.

Entry(call, arg, m, from, to, res) ==
    [call |-> call, arg |-> arg, m |-> m, from |-> from, to |-> to, res |-> res]

\* v in k bits, most significant first.
RECURSIVE to_bits(_, _)
to_bits(v, k) ==
    IF k = 0 THEN << >> ELSE Append(to_bits(v \div 2, k - 1), v % 2)

RECURSIVE from_bits(_)
from_bits(sq) ==
    IF sq = << >> THEN 0
    ELSE 2 * from_bits(SubSeq(sq, 1, Len(sq) - 1)) + sq[Len(sq)]

\* The unary code of q: q zeros and a one.
unary_code(q) == [i \in 1..(q + 1) |-> IF i = q + 1 THEN 1 ELSE 0]

mb_limit(m) == Pow(2, ilog2(m) + 1) - m

\* The minimal binary code of r in [0, m).
minimal_binary_code(r, m) ==
    IF r < mb_limit(m)
    THEN to_bits(r, ilog2(m))
    ELSE to_bits(r + mb_limit(m), ilog2(m) + 1)

len_minimal_binary(r, m) ==
    IF m = 0 THEN 0
    ELSE IF r < mb_limit(m) THEN ilog2(m) ELSE ilog2(m) + 1

\* Appends code to the sink, or fails with SinkFull and writes nothing.
write_code(s, call, arg, m, code, ret) ==
    LET from == Len(s.bits) IN
    IF from + Len(code) > SinkCap
    THEN [res |-> ErrRes(SinkFull),
          s |-> [s EXCEPT !.trace =
                    Append(@, Entry(call, arg, m, from, from, ErrRes(SinkFull)))]]
    ELSE IF ret = Panic
    THEN [res |-> PanicRes,
          s |-> [s EXCEPT !.trace =
                    Append(@, Entry(call, arg, m, from, from, PanicRes))]]
    ELSE [res |-> OkRes(ret),
          s |-> [s EXCEPT !.bits = @ \o code,
                          !.trace = Append(@, Entry(call, arg, m, from,
                                           from + Len(code), OkRes(ret)))]]

\* BitWrite::write_unary: returns the q + 1 bits written, as a usize.
write_unary(s, q, oc) ==
    write_code(s, "write_unary", q, 0, unary_code(q), usize_add(q, 1, oc))

\* MinimalBinaryWrite::write_minimal_binary.
write_minimal_binary(s, r, m) ==
    write_code(s, "write_minimal_binary", r, m, minimal_binary_code(r, m),
               Len(minimal_binary_code(r, m)))

\* BitRead::read_unary: the zeros before the next one; Eof without a one,
\* the bits up to the end consumed.
read_unary(s) ==
    LET ones == {i \in (s.pos + 1)..Len(s.bits) : s.bits[i] = 1} IN
    IF ones = {}
    THEN [res |-> ErrRes(Eof),
          s |-> [s EXCEPT !.pos = Len(s.bits),
                          !.trace = Append(@, Entry("read_unary", 0, 0, s.pos,
                                           Len(s.bits), ErrRes(Eof)))]]
    ELSE LET i == Min(ones) IN
         [res |-> OkRes(i - s.pos - 1),
          s |-> [s EXCEPT !.pos = i,
                          !.trace = Append(@, Entry("read_unary", 0, 0, s.pos,
                                           i, OkRes(i - s.pos - 1)))]]

\* MinimalBinaryRead::read_minimal_binary: ilog2(m) bits, and one more when
\* they are not below the limit; Eof when the source ends first.
read_minimal_binary(s, m) ==
    LET l == ilog2(m)
        n == Len(s.bits)
        prefix == from_bits(SubSeq(s.bits, s.pos + 1, s.pos + l))
        fail(to) ==
            [res |-> ErrRes(Eof),
             s |-> [s EXCEPT !.pos = to,
                             !.trace = Append(@, Entry("read_minimal_binary", 0, m,
                                              s.pos, to, ErrRes(Eof)))]]
        done(to, v) ==
            [res |-> OkRes(v),
             s |-> [s EXCEPT !.pos = to,
                             !.trace = Append(@, Entry("read_minimal_binary", 0, m,
                                              s.pos, to, OkRes(v)))]]
    IN
    IF s.pos + l > n THEN fail(s.pos)
    ELSE IF prefix < mb_limit(m) THEN done(s.pos + l, prefix)
    ELSE IF s.pos + l + 1 > n THEN fail(s.pos + l)
    ELSE done(s.pos + l + 1,
              2 * prefix + s.bits[s.pos + l + 1] - mb_limit(m))

(* ------------------------------ golomb.rs ------------------------------ *)

\* len_golomb(n, b): (n / b) as usize + 1 + len_minimal_binary(n % b, b).
len_golomb(n, bm, oc) ==
    IF bm = 0 THEN Panic
    ELSE LET q1 == usize_add(as_usize(n \div bm), 1, oc) IN
         IF q1 = Panic THEN Panic
         ELSE usize_add(q1, len_minimal_binary(n % bm, bm), oc)

\* The fixed-point numbers next to 2^(-1/bm): p(bm) = 1.0 / 2^(1.0 / bm)
\* is irrational for bm >= 2, and the f64 the source returns lies between
\* the two.  k / PScale <= 2^(-1/bm) iff 2 * k^bm <= PScale^bm.
p(bm) ==
    LET lo == CHOOSE k \in 0..PScale :
                  /\ 2 * Pow(k, bm) <= Pow(PScale, bm)
                  /\ 2 * Pow(k + 1, bm) > Pow(PScale, bm)
    IN IF 2 * Pow(lo, bm) = Pow(PScale, bm) THEN {lo} ELSE {lo, lo + 1}

\* The least k >= from with k >= -ln(2 - x) / ln(1 - x) for x = pv / PScale,
\* that is with (2 - x) * (1 - x)^k <= 1.
RECURSIVE ceil_ratio(_, _)
ceil_ratio(pv, from) ==
    IF (2 * PScale - pv) * Pow(PScale - pv, from) <= Pow(PScale, from + 1)
    THEN from
    ELSE ceil_ratio(pv, from + 1)

\* b(p) = ceil(-ln(2 - p) / ln(1 - p)) as u64, for p = pv / PScale in (0, 1).
\* The ratio is positive and never an integer for a rational p, so the
\* ceiling is the least k >= 1 above it.
b(pv) == ceil_ratio(pv, 1)

\* write_golomb with the two sub-codes written in the wrong order.
write_golomb_mb_first(s, n, bm, oc) ==
    IF bm = 0 THEN [res |-> PanicRes, s |-> s]
    ELSE LET m == write_minimal_binary(s, n % bm, bm) IN
         IF m.res.status # "ok" THEN m
         ELSE LET u == write_unary(m.s, n \div bm, oc) IN
              IF u.res.status # "ok" THEN u
              ELSE LET t == usize_add(u.res.value, m.res.value, oc) IN
                   [res |-> IF t = Panic THEN PanicRes ELSE OkRes(t), s |-> u.s]

\* write_golomb without the ? on the unary write: the failure of the unary
\* write is reported only after the minimal binary write has been tried.
write_golomb_no_abort(s, n, bm, oc) ==
    IF bm = 0 THEN [res |-> PanicRes, s |-> s]
    ELSE LET u == write_unary(s, n \div bm, oc)
             m == write_minimal_binary(u.s, n % bm, bm)
         IN
         IF u.res.status # "ok" THEN [res |-> u.res, s |-> m.s]
         ELSE IF m.res.status # "ok" THEN m
         ELSE LET t == usize_add(u.res.value, m.res.value, oc) IN
              [res |-> IF t = Panic THEN PanicRes ELSE OkRes(t), s |-> m.s]

\* GolombWrite::write_golomb:
\*   Ok(self.write_unary(n / b)? + self.write_minimal_binary(n % b, b)?)
write_golomb(s, n, bm, oc) ==
    IF bm = 0 THEN [res |-> PanicRes, s |-> s]
    ELSE LET u == write_unary(s, n \div bm, oc) IN
         IF u.res.status # "ok" THEN u
         ELSE LET m == write_minimal_binary(u.s, n % bm, bm) IN
              IF m.res.status # "ok" THEN m
              ELSE LET t == usize_add(u.res.value, m.res.value, oc) IN
                   [res |-> IF t = Panic THEN PanicRes ELSE OkRes(t), s |-> m.s]

\* read_golomb with the parentheses misplaced: (q + r) * b.
read_golomb_sum_first(s, bm, oc) ==
    LET u == read_unary(s) IN
    IF u.res.status # "ok" THEN u
    ELSE LET m == read_minimal_binary(u.s, bm) IN
         IF m.res.status # "ok" THEN m
         ELSE LET sum == u64_add(u.res.value, m.res.value, oc)
                  t == IF sum = Panic THEN Panic ELSE u64_mul(sum, bm, oc)
              IN [res |-> IF t = Panic THEN PanicRes ELSE OkRes(t), s |-> m.s]

\* read_golomb that seeks back to where it started when a sub-read fails.
read_golomb_rewind(s, bm, oc) ==
    LET u == read_unary(s) IN
    IF u.res.status # "ok" THEN [res |-> u.res, s |-> [u.s EXCEPT !.pos = s.pos]]
    ELSE LET prod == u64_mul(u.res.value, bm, oc) IN
         IF prod = Panic THEN [res |-> PanicRes, s |-> u.s]
         ELSE LET m == read_minimal_binary(u.s, bm) IN
              IF m.res.status # "ok"
              THEN [res |-> m.res, s |-> [m.s EXCEPT !.pos = s.pos]]
              ELSE LET t == u64_add(prod, m.res.value, oc) IN
                   [res |-> IF t = Panic THEN PanicRes ELSE OkRes(t), s |-> m.s]

\* GolombRead::read_golomb:
\*   Ok(self.read_unary()? * b + self.read_minimal_binary(b)?)
\* The product is computed before the right operand of + is evaluated.
read_golomb(s, bm, oc) ==
    LET u == read_unary(s) IN
    IF u.res.status # "ok" THEN u
    ELSE LET prod == u64_mul(u.res.value, bm, oc) IN
         IF prod = Panic THEN [res |-> PanicRes, s |-> u.s]
         ELSE LET m == read_minimal_binary(u.s, bm) IN
              IF m.res.status # "ok" THEN m
              ELSE LET t == u64_add(prod, m.res.value, oc) IN
                   [res |-> IF t = Panic THEN PanicRes ELSE OkRes(t), s |-> m.s]

(* ------------------------------- state --------------------------------- *)

VARIABLES
    overflow_checks,  \* the build: TRUE with overflow checks, FALSE without
    bits,             \* the bits in the sink, which the source reads back
    pos,              \* the source's position: bits consumed
    codes,            \* the successful write_golomb calls, in order
    nwrites,          \* write_golomb calls made
    last              \* the last call: its arguments, result and sub-calls

vars == <<overflow_checks, bits, pos, codes, nwrites, last>>

Values == (0..MaxVal) \cup {U64Max}

Moduli == 1..MaxMod

Call(op, n, bm, from, res, trace) ==
    [op |-> op, n |-> n, bm |-> bm, from |-> from, res |-> res, trace |-> trace]

Init ==
    /\ overflow_checks \in BOOLEAN
    /\ bits = << >>
    /\ pos = 0
    /\ codes = << >>
    /\ nwrites = 0
    /\ last = Call("none", 0, 0, 0, OkRes(0), << >>)

\* sink.write_golomb(n, bm)
WriteGolomb(n, bm) ==
    /\ nwrites < MaxWrites
    /\ LET w == write_golomb([bits |-> bits, pos |-> pos, trace |-> << >>],
                             n, bm, overflow_checks)
       IN /\ bits' = w.s.bits
          /\ last' = Call("write_golomb", n, bm, Len(bits), w.res, w.s.trace)
          /\ codes' = IF w.res.status = "ok"
                      THEN Append(codes, [n |-> n, bm |-> bm, start |-> Len(bits)])
                      ELSE codes
    /\ nwrites' = nwrites + 1
    /\ UNCHANGED <<overflow_checks, pos>>

\* source.read_golomb(bm)
ReadGolomb(bm) ==
    /\ LET r == read_golomb([bits |-> bits, pos |-> pos, trace |-> << >>],
                            bm, overflow_checks)
       IN /\ pos' = r.s.pos
          /\ last' = Call("read_golomb", 0, bm, pos, r.res, r.s.trace)
    /\ UNCHANGED <<overflow_checks, bits, codes, nwrites>>

\* len_golomb(n, bm)
LenGolomb(n, bm) ==
    /\ LET v == len_golomb(n, bm, overflow_checks) IN
       last' = Call("len_golomb", n, bm, 0,
                    IF v = Panic THEN PanicRes ELSE OkRes(v), << >>)
    /\ UNCHANGED <<overflow_checks, bits, pos, codes, nwrites>>

\* b(p(b0))
ModulusOfP(b0) ==
    /\ \E pv \in p(b0) :
          last' = Call("b_of_p", pv, b0, 0, OkRes(b(pv)), << >>)
    /\ UNCHANGED <<overflow_checks, bits, pos, codes, nwrites>>

Next ==
    \/ \E n \in Values, bm \in Moduli : WriteGolomb(n, bm)
    \/ \E bm \in Moduli : ReadGolomb(bm)

Spec == Init /\ [][Next]_vars

NextPure ==
    \/ \E n \in 0..U64Max, bm \in 0..U64Max : LenGolomb(n, bm)
    \/ \E b0 \in 1..MaxB0 : ModulusOfP(b0)

SpecPure == Init /\ [][NextPure]_vars

(* ------------------------------- claims -------------------------------- *)

\* The last call was read_golomb(bm) from the start of the i-th code, which
\* was written with the same modulus.
ReadsCode(i) ==
    /\ last.op = "read_golomb"
    /\ last.from = codes[i].start
    /\ last.bm = codes[i].bm

\* The last call was a write_golomb or a read_golomb that made exactly the
\* sub-calls first and second, in that order, on adjacent bits.
TwoCalls(first, second) ==
    /\ Len(last.trace) = 2
    /\ last.trace[1].call = first
    /\ last.trace[2].call = second
    /\ last.trace[1].from = last.from
    /\ last.trace[2].from = last.trace[1].to

\* C1: round trip.  read_golomb(b) from the start of the code that
\* write_golomb(x, b) wrote, with b >= 1, returns Ok(x).
C1_RoundTrip ==
    \A i \in 1..Len(codes) :
        ReadsCode(i) => last.res = OkRes(codes[i].n)

\* A code of the largest value under the modulus 3 (a remainder with the
\* longer minimal binary code) has been read back.
C1_Witness ==
    \E i \in 1..Len(codes) :
        /\ ReadsCode(i)
        /\ codes[i].n = U64Max
        /\ codes[i].bm = 3
        /\ last.res = OkRes(U64Max)

\* C2: length agreement.  The value a successful write_golomb(x, b) returns
\* is the number of bits it appended to the sink, and is len_golomb(x, b).
C2_LengthAgreement ==
    (last.op = "write_golomb" /\ last.res.status = "ok") =>
        /\ last.res.value = Len(bits) - last.from
        /\ len_golomb(last.n, last.bm, overflow_checks) = Len(bits) - last.from

\* C3: len_golomb(x, b) is (floor(x / b) + 1) + len_minimal_binary(x mod b, b)
\* for every x and every b >= 1.
C3_LenComposition ==
    (last.op = "len_golomb" /\ last.bm >= 1) =>
        last.res = OkRes((last.n \div last.bm) + 1
                         + len_minimal_binary(last.n % last.bm, last.bm))

\* C4: a successful read_golomb(b) made one unary read yielding q, then one
\* minimal binary read under b yielding r from where the unary read ended,
\* and returns q * b + r, whatever q and b are.
C4_ReadComposition ==
    (last.op = "read_golomb" /\ last.res.status = "ok") =>
        /\ TwoCalls("read_unary", "read_minimal_binary")
        /\ last.trace[2].m = last.bm
        /\ pos = last.trace[2].to
        /\ last.res.value =
               last.trace[1].res.value * last.bm + last.trace[2].res.value

\* C5: a successful write_golomb(x, b) appends to the sink the unary code of
\* floor(x / b) and then the minimal binary code of x mod b under b, and
\* nothing else.
C5_WriteOrder ==
    [][(nwrites' = nwrites + 1 /\ last'.res.status = "ok") =>
          /\ bits' = bits \o unary_code(last'.n \div last'.bm)
                          \o minimal_binary_code(last'.n % last'.bm, last'.bm)
          /\ Len(last'.trace) = 2
          /\ last'.trace[1].call = "write_unary"
          /\ last'.trace[1].arg = last'.n \div last'.bm
          /\ last'.trace[2].call = "write_minimal_binary"
          /\ last'.trace[2].arg = last'.n % last'.bm
          /\ last'.trace[2].m = last'.bm]_vars

\* The second code of a sink has been written: the largest value under the
\* modulus 3.
C5_Witness ==
    /\ last.op = "write_golomb"
    /\ last.res.status = "ok"
    /\ last.from > 0
    /\ last.n = U64Max
    /\ last.bm = 3

\* C6: encoder failure.  When the unary write fails, the minimal binary
\* write is not called and write_golomb returns the unary write's error;
\* when the minimal binary write fails after the unary write, write_golomb
\* returns the minimal binary write's error and the unary code stays in the
\* sink.
C6_WriteFailure ==
    [][(nwrites' = nwrites + 1 /\ last'.res.status = "err") =>
          \/ /\ Len(last'.trace) = 1
             /\ last'.trace[1].call = "write_unary"
             /\ last'.trace[1].res = last'.res
          \/ /\ Len(last'.trace) = 2
             /\ last'.trace[1].call = "write_unary"
             /\ last'.trace[1].res.status = "ok"
             /\ last'.trace[2].call = "write_minimal_binary"
             /\ last'.trace[2].res = last'.res
             /\ Len(bits') >= Len(bits) + (last'.n \div last'.bm) + 1
             /\ SubSeq(bits', 1, Len(bits) + (last'.n \div last'.bm) + 1)
                    = bits \o unary_code(last'.n \div last'.bm)]_vars

\* A write_golomb has failed in its minimal binary write, after its unary
\* write filled the sink.
C6_Witness ==
    /\ last.op = "write_golomb"
    /\ last.res = ErrRes(SinkFull)
    /\ Len(last.trace) = 2
    /\ Len(bits) > last.from

\* C7: decoder failure.  When the unary read fails, the minimal binary read
\* is not called and read_golomb returns the unary read's error; when the
\* minimal binary read fails, read_golomb returns its error; the source stays
\* where the failed sub-read left it.
C7_ReadFailure ==
    (last.op = "read_golomb" /\ last.res.status = "err") =>
        \/ /\ Len(last.trace) = 1
           /\ last.trace[1].call = "read_unary"
           /\ last.trace[1].from = last.from
           /\ last.trace[1].res = last.res
           /\ pos = last.trace[1].to
        \/ /\ TwoCalls("read_unary", "read_minimal_binary")
           /\ last.trace[1].res.status = "ok"
           /\ last.trace[2].res = last.res
           /\ pos = last.trace[2].to

\* A read_golomb has failed in its minimal binary read, which had consumed a
\* bit before the source ended.
C7_Witness ==
    /\ last.op = "read_golomb"
    /\ last.res = ErrRes(Eof)
    /\ Len(last.trace) = 2
    /\ last.trace[2].to > last.trace[2].from

\* C8: len_golomb(x, b) faults for b = 0 and for no other argument.
C8_LenFaultsOnlyOnZero ==
    (last.op = "len_golomb") =>
        (last.res.status = "panic" <=> last.bm = 0)

\* C9: b(p(b0)) = b0 for every modulus b0 >= 1.
C9_InverseConsistency ==
    (last.op = "b_of_p") => last.res.value = last.bm

\* C10: self-delimiting stream.  After successful writes only, read_golomb
\* from the start of the i-th code with its modulus returns its value,
\* consumes len_golomb(x_i, b_i) bits, and ends where the next code starts,
\* or at the end of the stream after the last code.
C10_SelfDelimiting ==
    \A i \in 1..Len(codes) :
        (ReadsCode(i) /\ nwrites = Len(codes)) =>
            /\ last.res = OkRes(codes[i].n)
            /\ pos - last.from
                   = len_golomb(codes[i].n, codes[i].bm, overflow_checks)
            /\ pos = IF i < Len(codes) THEN codes[i + 1].start ELSE Len(bits)

====
